---- MODULE Spec2Model ----
(***************************************************************************)
(* Model of scripts/fake_agent.py: a stand-in agent that resolves a task   *)
(* text, prints a banner and then echoes every line of standard input.     *)
(*                                                                         *)
(* Text is a sequence of one-character strings.  sys.stdout is a record    *)
(* of its unflushed buffer (buf) and of what has reached the descriptor    *)
(* (out).  pc is the statement main() is about to execute.                 *)
(***************************************************************************)
EXTENDS Integers, Sequences, FiniteSets

\* ------------------------------------------------------------------ bounds
\* Most lines read from standard input in one run.
MaxLines == 2
\* Most characters of one input line, its newline not counted.
MaxLen == 2

\* ------------------------------------------------------------- input sets
\* Characters an input line is made of (the newline is added by StdinLines).
Alphabet == {"a", " "}
\* Texts a command-line argument may carry.
ArgTexts == {<<>>, <<"x">>}
\* Texts the environment variable may carry.
EnvTexts == {<<>>, <<"y">>}

\* ------------------------------------------------------------- text model
\* Python's None, a value that is no text (every text is made of single
\* characters).
None == <<"None">>

NL == <<"\n">>

\* Truth value of a task: None and the empty string are false.
Truthy(x) == x # None /\ x # <<>>

\* str(x) as print applies it to its arguments.
Str(x) == IF x = None THEN <<"N", "o", "n", "e">> ELSE x

GotTaskText == <<"[", "a", "g", "e", "n", "t", "]", " ", "G", "o", "t", " ", "t", "a", "s", "k", ":">>

ReadyText == <<"[", "a", "g", "e", "n", "t", "]", " ", "R", "e", "a", "d", "y", ".", " ", "T", "y", "p", "e", " ", "t", "o", " ", "e", "c", "h", "o", ",", " ", "C", "t", "r", "l", "-", "Q", " ", "t", "o", " ", "d", "e", "t", "a", "c", "h", ".">>

PromptText == <<" ", "[", "u", "s", "e", "r", "]", " ">>

AgentPrefix == <<"[", "a", "g", "e", "n", "t", "]", " ">>

\* Variant of EchoText: the question mark is left out.
EchoTextNoMark(l) == AgentPrefix \o l

\* f"[agent] {line}?"
EchoText(l) == AgentPrefix \o l \o <<"?">>

\* The arguments of print joined by its separator, a single space.
RECURSIVE Join(_)
Join(args) ==
  IF args = <<>> THEN <<>>
  ELSE IF Len(args) = 1 THEN Str(args[1])
  ELSE Str(args[1]) \o <<" ">> \o Join(Tail(args))

\* Variant of rstrip: str.strip()'s trailing side, which also drops
\* trailing spaces and tabs.
RECURSIVE rstripWhitespace(_, _)
rstripWhitespace(s, chars) ==
  IF s # <<>> /\ s[Len(s)] \in (chars \cup {" ", "\t"})
    THEN rstripWhitespace(SubSeq(s, 1, Len(s) - 1), chars)
    ELSE s

\* str.rstrip(chars): drop every trailing character that is in chars.
RECURSIVE rstrip(_, _)
rstrip(s, chars) ==
  IF s # <<>> /\ s[Len(s)] \in chars
    THEN rstrip(SubSeq(s, 1, Len(s) - 1), chars)
    ELSE s

\* Variant of EnvironGet: the default is not passed, and None comes back.
EnvironGetNoDefault(ev, name, default) == IF name \in DOMAIN ev THEN ev[name] ELSE None

\* os.environ.get(name, default)
EnvironGet(ev, name, default) == IF name \in DOMAIN ev THEN ev[name] ELSE default

\* ------------------------------------------------------------- sys.stdout
\* A write to sys.stdout: the text stays in the buffer, or the buffer is
\* written out with it (a terminal at the end of a line, a full buffer).
Write(so, text) ==
  { [buf |-> so.buf \o text, out |-> so.out],
    [buf |-> <<>>, out |-> so.out \o so.buf \o text] }

\* sys.stdout.flush()
Flush(so) == [buf |-> <<>>, out |-> so.out \o so.buf]

\* print(*args, end=end)
PyPrint(so, args, end) == Write(so, Join(args) \o end)

\* Variant of prompt: the flush is left out.
promptNoFlush(so) == PyPrint(so, <<PromptText>>, <<>>)

\* prompt(): print(" [user] ", end="") and flush.
prompt(so) == { Flush(s) : s \in PyPrint(so, <<PromptText>>, <<>>) }

\* ------------------------------------------------------------ task lookup
\* Variant of ResolveTask: the environment variable is looked at first.
ResolveTaskEnvFirst(av, ev) ==
  LET t == EnvironGet(ev, "AGENCY_TASK", <<>>)
  IN IF ~Truthy(t) THEN (IF Len(av) > 1 THEN av[2] ELSE <<>>) ELSE t

\* Lines 8-12: the argument if it is truthy, else the environment variable,
\* else the empty string.
ResolveTask(av, ev) ==
  LET t == IF Len(av) > 1 THEN av[2] ELSE None
  IN IF ~Truthy(t) THEN EnvironGet(ev, "AGENCY_TASK", <<>>) ELSE t

\* ------------------------------------------------------------------ state
VARIABLES argv, env, task, pc, stdin, consumed, line, shown, stdout, stderr,
          exc, excAt, status

vars == <<argv, env, task, pc, stdin, consumed, line, shown, stdout, stderr,
          exc, excAt, status>>

\* The statements of main(), and the two subsets an exception cares about.
MainPcs == {"start", "banner1", "banner2", "flush", "prompt0", "read", "strip",
            "blank", "echo", "prompt"}
\* Variant of TryPcs: the try block starts at the loop, after the first prompt.
TryPcsLoopOnly == {"read", "strip", "blank", "echo", "prompt"}
TryPcs == {"prompt0", "read", "strip", "blank", "echo", "prompt"}
IOPcs == {"banner1", "banner2", "flush", "prompt0", "read", "blank", "echo",
          "prompt"}

ProgName == <<"f">>

\* sys.argv: the program name, then at most one argument.
ArgvChoices == {<<ProgName>>} \cup { <<ProgName, a>> : a \in ArgTexts }

\* os.environ restricted to AGENCY_TASK: unset, or set to a text.
EnvChoices == {<<>>} \cup { [n \in {"AGENCY_TASK"} |-> v] : v \in EnvTexts }

\* The texts of input lines, without their newline.
Contents == UNION { [1..n -> Alphabet] : n \in 0..MaxLen }

\* What iterating sys.stdin yields: a text ending in a newline, or a
\* non-empty text without one (the last line of a stream that ends without).
StdinLines == { c \o NL : c \in Contents } \cup (Contents \ {<<>>})

Init ==
  /\ argv \in ArgvChoices
  /\ env \in EnvChoices
  /\ task = None
  /\ pc = "start"
  /\ stdin = "open"
  /\ consumed = <<>>
  /\ line = <<>>
  /\ shown = <<>>
  /\ stdout = [buf |-> <<>>, out |-> <<>>]
  /\ stderr = <<>>
  /\ exc = "none"
  /\ excAt = "none"
  /\ status = -1

\* ---------------------------------------------------------------- actions
\* Lines 8-12.
Resolve ==
  /\ pc = "start"
  /\ task' = ResolveTask(argv, env)
  /\ pc' = "banner1"
  /\ UNCHANGED <<argv, env, stdin, consumed, line, shown, stdout, stderr, exc, excAt, status>>

\* Line 15: print("[agent] Got task:", task)
PrintTask ==
  /\ pc = "banner1"
  /\ stdout' \in PyPrint(stdout, <<GotTaskText, task>>, NL)
  /\ pc' = "banner2"
  /\ UNCHANGED <<argv, env, task, stdin, consumed, line, shown, stderr, exc, excAt, status>>

\* Line 16: print("[agent] Ready. ...")
PrintReady ==
  /\ pc = "banner2"
  /\ stdout' \in PyPrint(stdout, <<ReadyText>>, NL)
  /\ pc' = "flush"
  /\ UNCHANGED <<argv, env, task, stdin, consumed, line, shown, stderr, exc, excAt, status>>

\* Line 17: sys.stdout.flush()
FlushBanner ==
  /\ pc = "flush"
  /\ stdout' = Flush(stdout)
  /\ pc' = "prompt0"
  /\ UNCHANGED <<argv, env, task, stdin, consumed, line, shown, stderr, exc, excAt, status>>

\* Variant of FirstPrompt: the prompt before the loop is left out.
FirstPromptSkipped ==
  /\ pc = "prompt0"
  /\ pc' = "read"
  /\ UNCHANGED <<argv, env, task, stdin, consumed, line, shown, stdout, stderr, exc, excAt, status>>

\* Line 20: the prompt() before the loop.
FirstPrompt ==
  /\ pc = "prompt0"
  /\ stdout' \in prompt(stdout)
  /\ pc' = "read"
  /\ UNCHANGED <<argv, env, task, stdin, consumed, line, shown, stderr, exc, excAt, status>>

\* Line 21: the for loop takes the next line of sys.stdin.  shown records
\* what had been printed when the line was taken.
ReadLine ==
  /\ pc = "read"
  /\ stdin = "open"
  /\ Len(consumed) < MaxLines
  /\ \E l \in StdinLines :
       /\ line' = l
       /\ consumed' = Append(consumed, l)
       /\ stdin' = IF l[Len(l)] = "\n" THEN "open" ELSE "ended"
  /\ shown' = stdout.out \o stdout.buf
  /\ pc' = "strip"
  /\ UNCHANGED <<argv, env, task, stdout, stderr, exc, excAt, status>>

\* Line 21: sys.stdin is exhausted; the loop, the try block and main() end.
ReadEof ==
  /\ pc = "read"
  /\ stdin \in {"open", "ended"}
  /\ stdin' = "eof"
  /\ pc' = "return"
  /\ UNCHANGED <<argv, env, task, consumed, line, shown, stdout, stderr, exc, excAt, status>>

\* Lines 22-23: line = line.rstrip("\n"); if not line
Strip ==
  /\ pc = "strip"
  /\ line' = rstrip(line, {"\n"})
  /\ pc' = IF line' = <<>> THEN "blank" ELSE "echo"
  /\ UNCHANGED <<argv, env, task, stdin, consumed, shown, stdout, stderr, exc, excAt, status>>

\* Variant of Blank: the prompt is issued again after the blank line.
BlankWithPrompt ==
  /\ pc = "blank"
  /\ \E s \in PyPrint(stdout, <<>>, NL) : stdout' \in prompt(s)
  /\ pc' = "read"
  /\ UNCHANGED <<argv, env, task, stdin, consumed, line, shown, stderr, exc, excAt, status>>

\* Variant of Blank: break instead of continue, an empty line ends the loop.
BlankBreak ==
  /\ pc = "blank"
  /\ \E s \in PyPrint(stdout, <<>>, NL) : stdout' = Flush(s)
  /\ pc' = "return"
  /\ UNCHANGED <<argv, env, task, stdin, consumed, line, shown, stderr, exc, excAt, status>>

\* Lines 24-26: print(); sys.stdout.flush(); continue
Blank ==
  /\ pc = "blank"
  /\ \E s \in PyPrint(stdout, <<>>, NL) : stdout' = Flush(s)
  /\ pc' = "read"
  /\ UNCHANGED <<argv, env, task, stdin, consumed, line, shown, stderr, exc, excAt, status>>

\* Line 27: print(f"[agent] {line}?")
Echo ==
  /\ pc = "echo"
  /\ stdout' \in PyPrint(stdout, <<EchoText(line)>>, NL)
  /\ pc' = "prompt"
  /\ UNCHANGED <<argv, env, task, stdin, consumed, line, shown, stderr, exc, excAt, status>>

\* Line 28: prompt()
Prompt ==
  /\ pc = "prompt"
  /\ stdout' \in prompt(stdout)
  /\ pc' = "read"
  /\ UNCHANGED <<argv, env, task, stdin, consumed, line, shown, stderr, exc, excAt, status>>

\* A KeyboardInterrupt raised in main(): the except clause of line 29 takes
\* it when the statement is inside the try block of lines 19-28, and it
\* leaves main() uncaught otherwise.
Interrupt ==
  /\ pc \in MainPcs
  /\ exc' = "KeyboardInterrupt"
  /\ excAt' = pc
  /\ pc' = IF pc \in TryPcs THEN "except" ELSE "uncaught"
  /\ UNCHANGED <<argv, env, task, stdin, consumed, line, shown, stdout, stderr, status>>

\* Lines 29-30: except KeyboardInterrupt: pass
ExceptPass ==
  /\ pc = "except"
  /\ pc' = "return"
  /\ UNCHANGED <<argv, env, task, stdin, consumed, line, shown, stdout, stderr, exc, excAt, status>>

\* Variant of Fault: a bare except clause, which takes every exception.
FaultCaught ==
  /\ pc \in IOPcs
  /\ exc' = "OSError"
  /\ excAt' = pc
  /\ pc' = IF pc \in TryPcs THEN "except" ELSE "uncaught"
  /\ UNCHANGED <<argv, env, task, stdin, consumed, line, shown, stdout, stderr, status>>

\* An exception other than KeyboardInterrupt raised by a statement that
\* reads or writes (OSError of a failed write, say): no clause takes it.
Fault ==
  /\ pc \in IOPcs
  /\ exc' = "OSError"
  /\ excAt' = pc
  /\ pc' = "uncaught"
  /\ UNCHANGED <<argv, env, task, stdin, consumed, line, shown, stdout, stderr, status>>

\* Line 39: main() returned; the interpreter flushes sys.stdout and exits 0.
Exit ==
  /\ pc = "return"
  /\ stdout' = Flush(stdout)
  /\ status' = 0
  /\ pc' = "exited"
  /\ UNCHANGED <<argv, env, task, stdin, consumed, line, shown, stderr, exc, excAt>>

\* Line 39: main() returned, and the interpreter's last flush fails; the
\* failure is reported and the exit status is 120.
ExitFlushFault ==
  /\ pc = "return"
  /\ stdout.buf # <<>>
  /\ stdout' = [buf |-> <<>>, out |-> stdout.out]
  /\ exc' = "OSError"
  /\ excAt' = "return"
  /\ stderr' = Append(stderr, "OSError")
  /\ status' = 120
  /\ pc' = "exited"
  /\ UNCHANGED <<argv, env, task, stdin, consumed, line, shown>>

\* Line 39: an exception left main(); the interpreter prints the traceback
\* and exits non-zero (as killed by SIGINT for a KeyboardInterrupt).  The
\* last flush may fail with the stream that raised the OSError.
Die ==
  /\ pc = "uncaught"
  /\ stderr' = Append(stderr, exc)
  /\ status' = IF exc = "KeyboardInterrupt" THEN 130 ELSE 1
  /\ \/ stdout' = Flush(stdout)
     \/ exc = "OSError" /\ stdout' = [buf |-> <<>>, out |-> stdout.out]
  /\ pc' = "exited"
  /\ UNCHANGED <<argv, env, task, stdin, consumed, line, shown, exc, excAt>>

\* The steps the process takes by itself; reading waits for the input.
Step ==
  \/ Resolve \/ PrintTask \/ PrintReady \/ FlushBanner \/ FirstPrompt
  \/ Strip \/ Blank \/ Echo \/ Prompt \/ ExceptPass
  \/ Exit \/ ExitFlushFault \/ Die

Next ==
  \/ Resolve
  \/ PrintTask
  \/ PrintReady
  \/ FlushBanner
  \/ FirstPrompt
  \/ ReadLine
  \/ ReadEof
  \/ Strip
  \/ Blank
  \/ Echo
  \/ Prompt
  \/ Interrupt
  \/ ExceptPass
  \/ Fault
  \/ Exit
  \/ ExitFlushFault
  \/ Die

Spec == Init /\ [][Next]_vars

\* A sequential process that can take a step takes it.
FairSpec == Spec /\ WF_vars(Step)

\* ------------------------------------------------- vocabulary of the claims
\* Everything printed so far, flushed or not.
Emitted == stdout.out \o stdout.buf

\* The line taken last from standard input.
LastLine == consumed[Len(consumed)]

\* An input line without its one trailing newline, if it has one.
Content(l) ==
  IF l # <<>> /\ l[Len(l)] = "\n" THEN SubSeq(l, 1, Len(l) - 1) ELSE l

IsPrefix(p, s) == Len(p) <= Len(s) /\ SubSeq(s, 1, Len(p)) = p

IsSuffix(p, s) == Len(p) <= Len(s) /\ SubSeq(s, Len(s) - Len(p) + 1, Len(s)) = p

\* How many times the text p occurs in s.
Count(p, s) ==
  Cardinality({ i \in 1..(Len(s) - Len(p) + 1) : SubSeq(s, i, i + Len(p) - 1) = p })

\* The value of AGENCY_TASK, the empty text when it is unset.
EnvValue == IF "AGENCY_TASK" \in DOMAIN env THEN env["AGENCY_TASK"] ELSE <<>>

\* Banner line 1, banner line 2 and the first prompt for task t.
Startup(t) ==
  <<"[", "a", "g", "e", "n", "t", "]", " ", "G", "o", "t", " ", "t", "a", "s", "k", ":", " ">>
    \o t \o <<"\n">> \o ReadyText \o <<"\n">> \o <<" ", "[", "u", "s", "e", "r", "]", " ">>

\* The answer to a non-empty line with content c: `[agent] c?`, then the prompt.
EchoAnswer(c) ==
  <<"[", "a", "g", "e", "n", "t", "]", " ">> \o c \o <<"?", "\n">>
    \o <<" ", "[", "u", "s", "e", "r", "]", " ">>

\* The number of lines of ls that are not empty once their newline is gone.
RECURSIVE NonEmptyLines(_)
NonEmptyLines(ls) ==
  IF ls = <<>> THEN 0
  ELSE (IF Content(ls[1]) # <<>> THEN 1 ELSE 0) + NonEmptyLines(Tail(ls))

\* The answers to the lines ls, one after the other: the echo and the prompt
\* for a non-empty line, a blank line for an empty one.
RECURSIVE Answers(_)
Answers(ls) ==
  IF ls = <<>> THEN <<>>
  ELSE (IF Content(ls[1]) # <<>> THEN EchoAnswer(Content(ls[1])) ELSE <<"\n">>)
         \o Answers(Tail(ls))

\* The task has been resolved: lines 8-12 have run to their end.
Resolved == pc # "start" /\ excAt # "start"

\* The statements after the banner has been emitted and flushed.
AfterBannerPcs == {"prompt0", "read", "strip", "blank", "echo", "prompt"}

\* ------------------------------------------------------------------ claims
\* C1: when the program is back at the read after a non-empty line s, it has
\* added to standard output exactly `[agent] s?`, a newline and the prompt
\* ` [user] `, and nothing else, all of it flushed.
C1_EchoThenPrompt ==
  (pc = "read" /\ consumed # <<>> /\ Content(LastLine) # <<>>)
    => /\ stdout.out = shown \o EchoAnswer(Content(LastLine))
       /\ stdout.buf = <<>>

\* C1 witness: the second line, with a leading space, answered after an
\* empty first line.
C1_Witness ==
  /\ pc = "read"
  /\ Len(consumed) = 2
  /\ Content(consumed[1]) = <<>>
  /\ Content(consumed[2]) = <<" ", "a">>
  /\ stdout.out = shown \o EchoAnswer(<<" ", "a">>)

\* C2 as stated: an empty line is answered by one blank line followed by the
\* prompt, and the prompts emitted are one more than the lines processed.
C2_Original ==
  (pc = "read" /\ consumed # <<>>)
    => /\ Content(LastLine) = <<>> => stdout.out = shown \o <<"\n">> \o PromptText
       /\ Count(PromptText, Emitted) = 1 + Len(consumed)

\* C2 amended: an empty line is answered by exactly one blank line, flushed,
\* and no prompt; the prompts emitted are one more than the non-empty lines
\* processed.
C2_BlankWithoutPrompt ==
  (pc = "read")
    => /\ (consumed # <<>> /\ Content(LastLine) = <<>>)
            => (stdout.out = shown \o <<"\n">> /\ stdout.buf = <<>>)
       /\ Count(PromptText, Emitted) = 1 + NonEmptyLines(consumed)

\* C2 witness: back at the read after a non-empty and then an empty line.
C2_Witness ==
  /\ pc = "read"
  /\ Len(consumed) = 2
  /\ Content(consumed[1]) # <<>>
  /\ Content(consumed[2]) = <<>>
  /\ Count(PromptText, Emitted) = 2

\* C3 as stated: a supplied argument, the empty string included, is the
\* task whatever the environment variable holds.
C3_Original ==
  (Resolved /\ Len(argv) > 1) => task = argv[2]

\* C3 amended: a supplied non-empty argument is the task whatever the
\* environment variable holds; a supplied empty argument counts as absent,
\* and the task is the environment variable's value, or empty when unset.
C3_NonEmptyArgumentWins ==
  (Resolved /\ Len(argv) > 1)
    => task = (IF argv[2] # <<>> THEN argv[2] ELSE EnvValue)

\* C3 witness: a non-empty argument with the environment variable set to
\* another text.
C3_Witness ==
  /\ Resolved
  /\ Len(argv) > 1
  /\ argv[2] = <<"x">>
  /\ EnvValue = <<"y">>
  /\ task = <<"x">>

\* C4: without an argument the task is the value of AGENCY_TASK, the empty
\* text when it is unset, and the first thing printed is the line
\* `[agent] Got task: ` followed by that task.
C4_EnvironmentFallback ==
  /\ (Resolved /\ Len(argv) = 1) => task = EnvValue
  /\ (pc = "banner2" /\ Len(argv) = 1)
       => Emitted = GotTaskText \o <<" ">> \o EnvValue \o <<"\n">>

\* C4 witness: no argument, the variable unset, banner line 1 printed.
C4_Witness ==
  /\ pc = "banner2"
  /\ Len(argv) = 1
  /\ ~("AGENCY_TASK" \in DOMAIN env)
  /\ Emitted = GotTaskText \o <<" ", "\n">>

\* C5: once a line is or has been read, the output starts with banner line
\* 1, banner line 2 and the prompt, each banner line occurs once, and at
\* every read the output is that start followed by the answers in the order
\* of the input lines.
C5_BannerThenAnswersInOrder ==
  /\ (pc = "read" \/ consumed # <<>>)
       => /\ IsPrefix(Startup(task), stdout.out)
          /\ Count(GotTaskText, Emitted) = 1
          /\ Count(ReadyText, Emitted) = 1
  /\ pc = "read" => stdout.out = Startup(task) \o Answers(consumed)
  /\ consumed # <<>> => pc \notin {"start", "banner1", "banner2", "flush", "prompt0"}

\* C5 witness: the line `a`, then end-of-input and a clean exit.
C5_Witness ==
  /\ pc = "exited"
  /\ stdin = "eof"
  /\ consumed = << <<"a", "\n">> >>
  /\ stdout.out = Startup(task) \o EchoAnswer(<<"a">>)

\* C6: the loop is left without an exception only at end-of-input; the exit
\* status is then 0; nothing is output once end-of-input is observed; and
\* after end-of-input the program eventually exits with status 0.
C6_EndOfInputExitsCleanly ==
  /\ []((pc \in {"return", "exited"} /\ exc = "none") => stdin = "eof")
  /\ []((pc = "exited" /\ exc = "none") => status = 0)
  /\ [][stdin = "eof" => stdout'.out = stdout.out]_vars
  /\ (stdin = "eof") ~> (pc = "exited" /\ status = 0)

\* C6 witness: a clean exit after two lines and end-of-input.
C6_Witness ==
  /\ pc = "exited"
  /\ stdin = "eof"
  /\ Len(consumed) = 2
  /\ status = 0

\* C7: a KeyboardInterrupt raised after the banner has been emitted ends the
\* run with status 0 and nothing on standard error, and no further line is
\* read or processed once it is raised.
C7_InterruptIsCleanExit ==
  /\ []((pc = "exited" /\ exc = "KeyboardInterrupt" /\ excAt \in AfterBannerPcs)
          => (status = 0 /\ stderr = <<>>))
  /\ []((exc = "KeyboardInterrupt" /\ excAt \in AfterBannerPcs)
          => pc \in {"except", "return", "exited"})
  /\ [][(exc = "KeyboardInterrupt" /\ excAt \in AfterBannerPcs)
          => (consumed' = consumed /\ line' = line)]_vars

\* C7 witness: interrupted while writing an echo, exited with status 0.
C7_Witness ==
  /\ pc = "exited"
  /\ exc = "KeyboardInterrupt"
  /\ excAt = "echo"
  /\ consumed # <<>>
  /\ status = 0
  /\ stderr = <<>>

\* C8: an exception other than KeyboardInterrupt is not caught: no further
\* line is read, and the run ends with a non-zero status; a run that ends
\* with status 0 ended by end-of-input or by an interrupt.
C8_FaultIsNotCaught ==
  /\ []((pc = "exited" /\ exc = "OSError") => (status # 0 /\ stderr # <<>>))
  /\ [](exc = "OSError" => pc \in {"uncaught", "exited"})
  /\ []((pc = "exited" /\ status = 0)
          => ((stdin = "eof" /\ exc = "none") \/ exc = "KeyboardInterrupt"))
  /\ [][exc = "OSError" => (consumed' = consumed /\ line' = line)]_vars

\* C8 witness: a failed write of an echo, exit status 1.
C8_Witness ==
  /\ pc = "exited"
  /\ exc = "OSError"
  /\ excAt = "echo"
  /\ status = 1

\* C9: whenever the program waits for a line, nothing it has printed is
\* left in the output buffer.
C9_FlushedAtRead ==
  pc = "read" => stdout.buf = <<>>

\* C9 witness: waiting for the third line after an empty and a non-empty one.
C9_Witness ==
  /\ pc = "read"
  /\ Len(consumed) = 2
  /\ Content(consumed[1]) = <<>>
  /\ Content(consumed[2]) # <<>>
  /\ stdout.buf = <<>>

\* C10: the loop takes off only the trailing newline: the line it tests and
\* echoes is the input line without that newline, so a line of spaces is
\* not blank and is echoed with its spaces.
C10_OnlyNewlineStripped ==
  /\ pc \in {"blank", "echo", "prompt"} => line = Content(LastLine)
  /\ pc = "blank" => Content(LastLine) = <<>>
  /\ pc = "prompt"
       => IsSuffix(<<"[", "a", "g", "e", "n", "t", "]", " ">> \o Content(LastLine) \o <<"?", "\n">>,
                   Emitted)

\* C10 witness: a line of two spaces has been echoed.
C10_Witness ==
  /\ pc = "prompt"
  /\ LastLine = <<" ", " ", "\n">>
  /\ IsSuffix(<<"[", "a", "g", "e", "n", "t", "]", " ", " ", " ", "?", "\n">>, Emitted)

====
